---- MODULE Spec2Model ----
(***************************************************************************)
(* A model of power-usage-analysis.py: one command-line run of main() on   *)
(* one CSV file.                                                           *)
(*                                                                         *)
(* Numbers.  USAGE values are whole numbers of the file's own unit.  The   *)
(* program's floating-point quantities are kept as exact integers:         *)
(*   *_usage  fields  in thousandths of a kWh  (x / conversion, x 1000),   *)
(*   RATE_*           in 1/100000 of a dollar per kWh,                     *)
(*   *_cost, savings  in 1/100000000 of a dollar (usage field x rate),     *)
(*   *_percentage     as the quotient's kind and its numerator and         *)
(*                    denominator (numpy: 0/0 is nan, x/0 is inf).         *)
(* A cell of the table is [nan |-> TRUE] when pandas read it as missing,   *)
(* and [nan |-> FALSE, v |-> value] otherwise.                             *)
(***************************************************************************)
EXTENDS Integers, Sequences, FiniteSets, TLC

VARIABLES argv, file, pc, outcome, stdout, ret, exit_code

vars == <<argv, file, pc, outcome, stdout, ret, exit_code>>

\* ------------------------------------------------------------ bounds
MaxRows == 2

\* ------------------------------------------------------------ constants
RATE_WINTER_PEAK == 34634
RATE_WINTER_OFF_PEAK == 17703
RATE_SUMMER == 12198
RATE_FIXED == 17703

\* ------------------------------------------------------------ cells
NaN == [nan |-> TRUE]
Cell(x) == [nan |-> FALSE, v |-> x]
isna(c) == c.nan

\* unit strings, as sequences of characters
Wh == <<"W", "h">>
kWh == <<"k", "W", "h">>
GJ == <<"G", "J">>

\* Python's  sub in s  on strings
Contains(sub, s) ==
    \E i \in 0..(Len(s) - Len(sub)) : SubSeq(s, i + 1, i + Len(sub)) = sub

\* Python's range(a, b)
Range(a, b) == a..(b - 1)

\* sum of f[i] over a finite set of indices
RECURSIVE SumOver(_, _)
SumOver(f, S) ==
    IF S = {} THEN 0
    ELSE LET i == CHOOSE j \in S : TRUE IN f[i] + SumOver(f, S \ {i})

\* ------------------------------------------------------------ the file
MetaLine(k, val) == [kind |-> "meta", key |-> k, value |-> val]
HeaderLine == [kind |-> "header"]
Row(d, t, u, un) ==
    [kind |-> "row", DATE |-> d, START_TIME |-> t, USAGE |-> u, UNITS |-> un]

\* find_header_row: index (from 0) of the first header line, -1 for the raise
find_header_row(lines) ==
    IF \E i \in 1..Len(lines) : lines[i].kind = "header"
    THEN (CHOOSE i \in 1..Len(lines) :
              /\ lines[i].kind = "header"
              /\ \A j \in 1..(i - 1) : lines[j].kind # "header") - 1
    ELSE -1

\* pd.read_csv(file_path, skiprows=header_row): the rows under the header line
read_csv(lines, header_row) == SubSeq(lines, header_row + 2, Len(lines))

\* ------------------------------------------------------------ timestamps
\* A DATE cell holds <<first field, second field>> of "a/b/Y" and a START TIME
\* cell <<hours, minutes>> of "H:M"; the year is a fixed non-leap year.
DaysInMonth(m) ==
    IF m = 2 THEN 28 ELSE IF m \in {4, 6, 9, 11} THEN 30 ELSE 31

\* df["DATE"] + " " + df["START TIME"], one element: missing if either is
concat(d, t) ==
    IF isna(d) \/ isna(t) THEN NaN ELSE Cell(<<d.v[1], d.v[2], t.v[1], t.v[2]>>)

\* format="%m/%d/%Y %H:%M": does the text parse
matches_format(x) ==
    /\ x[1] \in 1..12
    /\ x[2] \in 1..DaysInMonth(x[1])
    /\ x[3] \in 0..23
    /\ x[4] \in 0..59

\* pd.to_datetime, one element: a missing value becomes NaT without an error
to_datetime(c) ==
    IF isna(c) THEN NaN
    ELSE Cell([month |-> c.v[1], day |-> c.v[2], hour |-> c.v[3], minute |-> c.v[4]])

\* .dt.month and .dt.hour: NaN for NaT
dt_month(ts) == IF isna(ts) THEN NaN ELSE Cell(ts.v.month)
dt_hour(ts) == IF isna(ts) THEN NaN ELSE Cell(ts.v.hour)

\* Series.isin(values), one element: NaN is in no list of numbers
isin(x, values) == (~isna(x)) /\ x.v \in values

winter_months == {11, 12, 1, 2, 3}
\* a variant of peak_hours that takes both ends of each interval
peak_hours_closed == (7..11) \cup (17..21)
peak_hours == Range(7, 11) \cup Range(17, 21)
summer_months == {4, 5, 6, 7, 8, 9, 10}

\* the three row filters of analyze_power_usage
in_winter_peak(month, hour) == isin(month, winter_months) /\ isin(hour, peak_hours)
in_winter_off_peak(month, hour) == isin(month, winter_months) /\ ~isin(hour, peak_hours)
in_summer_all(month, hour) == isin(month, summer_months)

\* conversion = 1000 if "Wh" in df["UNITS"].iloc[0] else 1
conversion_of(units) == IF Contains(Wh, units) THEN 1000 ELSE 1

\* a / b * 100 on numpy numbers: no exception on a zero divisor
percentage(a, b) ==
    IF b = 0
    THEN [kind |-> IF a = 0 THEN "nan" ELSE "inf", num |-> 0, den |-> 0]
    ELSE [kind |-> "finite", num |-> a * 100, den |-> b]

\* x / conversion, in thousandths of a kWh
to_kwh(x, conversion) == (x * 1000) \div conversion

Raise(type, msg) == [raised |-> TRUE, type |-> type, exc |-> msg]
Return(res) == [raised |-> FALSE, results |-> res]

\* the first header_row lines that hold a comma, as key -> value
extract_metadata(lines, header_row) ==
    {<<lines[i].key, lines[i].value>> : i \in 1..header_row}

\* a variant of iloc0 that reads the last element
iloc_last(column) == column[Len(column)]
\* Series.iloc[0]
iloc0(column) == column[1]

\* a variant of cost_analysis with the savings subtraction the other way round
cost_analysis_swapped(winter_peak_kwh, winter_off_peak_kwh, summer_kwh, total_kwh) ==
    LET winter_peak_cost == winter_peak_kwh * RATE_WINTER_PEAK
        winter_off_peak_cost == winter_off_peak_kwh * RATE_WINTER_OFF_PEAK
        summer_cost == summer_kwh * RATE_SUMMER
        total_time_of_use_cost ==
            winter_peak_cost + winter_off_peak_cost + summer_cost
        total_fixed_rate_cost == total_kwh * RATE_FIXED
    IN  [winter_peak_cost |-> winter_peak_cost,
         winter_off_peak_cost |-> winter_off_peak_cost,
         summer_cost |-> summer_cost,
         total_time_of_use_cost |-> total_time_of_use_cost,
         total_fixed_rate_cost |-> total_fixed_rate_cost,
         savings |-> total_time_of_use_cost - total_fixed_rate_cost]

\* lines 97-107: the two billing models, from the four kWh figures
cost_analysis(winter_peak_kwh, winter_off_peak_kwh, summer_kwh, total_kwh) ==
    LET winter_peak_cost == winter_peak_kwh * RATE_WINTER_PEAK
        winter_off_peak_cost == winter_off_peak_kwh * RATE_WINTER_OFF_PEAK
        summer_cost == summer_kwh * RATE_SUMMER
        total_time_of_use_cost ==
            winter_peak_cost + winter_off_peak_cost + summer_cost
        total_fixed_rate_cost == total_kwh * RATE_FIXED
        savings == total_fixed_rate_cost - total_time_of_use_cost
    IN  [winter_peak_cost |-> winter_peak_cost,
         winter_off_peak_cost |-> winter_off_peak_cost,
         summer_cost |-> summer_cost,
         total_time_of_use_cost |-> total_time_of_use_cost,
         total_fixed_rate_cost |-> total_fixed_rate_cost,
         savings |-> savings]

\* lines 59-136 of analyze_power_usage, on the table with its datetime column
aggregate(lines, header_row, df) ==
    LET n == Len(df)
        datetime == [i \in 1..n |-> to_datetime(concat(df[i].DATE, df[i].START_TIME))]
        month == [i \in 1..n |-> dt_month(datetime[i])]
        hour == [i \in 1..n |-> dt_hour(datetime[i])]
        usage == [i \in 1..n |-> df[i].USAGE]
        units == [i \in 1..n |-> df[i].UNITS]
        winter_peak ==
            SumOver(usage, {i \in 1..n : in_winter_peak(month[i], hour[i])})
        winter_off_peak ==
            SumOver(usage, {i \in 1..n : in_winter_off_peak(month[i], hour[i])})
        summer_all ==
            SumOver(usage, {i \in 1..n : in_summer_all(month[i], hour[i])})
        total_usage == SumOver(usage, 1..n)
    IN  IF n = 0
        THEN Raise("IndexError", "single positional indexer is out-of-bounds")
        ELSE IF isna(iloc0(units))
        THEN Raise("TypeError", "argument of type 'float' is not iterable")
        ELSE
        LET conversion == conversion_of(iloc0(units).v)
            winter_peak_kwh == to_kwh(winter_peak, conversion)
            winter_off_peak_kwh == to_kwh(winter_off_peak, conversion)
            summer_kwh == to_kwh(summer_all, conversion)
            total_kwh == to_kwh(total_usage, conversion)
            costs == cost_analysis(winter_peak_kwh, winter_off_peak_kwh,
                                   summer_kwh, total_kwh)
        IN  Return([
                winter_peak_usage |-> winter_peak_kwh,
                winter_off_peak_usage |-> winter_off_peak_kwh,
                summer_usage |-> summer_kwh,
                total_usage |-> total_kwh,
                winter_peak_percentage |-> percentage(winter_peak, total_usage),
                winter_off_peak_percentage |-> percentage(winter_off_peak, total_usage),
                summer_percentage |-> percentage(summer_all, total_usage),
                winter_peak_cost |-> costs.winter_peak_cost,
                winter_off_peak_cost |-> costs.winter_off_peak_cost,
                summer_cost |-> costs.summer_cost,
                total_time_of_use_cost |-> costs.total_time_of_use_cost,
                total_fixed_rate_cost |-> costs.total_fixed_rate_cost,
                savings |-> costs.savings,
                metadata |-> extract_metadata(lines, header_row)])

\* analyze_power_usage(file_path): what the call returns or raises
analyze_power_usage(f) ==
    IF ~f.exists
    THEN Raise("FileNotFoundError", "No such file or directory")
    ELSE
    LET header_row == find_header_row(f.lines)
        df == read_csv(f.lines, header_row)
        n == Len(df)
    IN  IF header_row = -1
        THEN Raise("ValueError", "Could not find the header row in the CSV file")
        ELSE IF n > 0 /\ ((\A i \in 1..n : isna(df[i].DATE))
                          \/ (\A i \in 1..n : isna(df[i].START_TIME)))
        THEN Raise("TypeError", "unsupported operand type(s) for +")
        ELSE IF \E i \in 1..n :
                    LET c == concat(df[i].DATE, df[i].START_TIME)
                    IN  (~isna(c)) /\ ~matches_format(c.v)
        THEN Raise("ValueError", "time data doesn't match format")
        ELSE aggregate(f.lines, header_row, df)

\* ------------------------------------------------------------ output
Line(text, arg) == [text |-> text, arg |-> arg]

\* format_results(results): the lines it prints (numbers not rendered)
format_results(results) ==
    LET keys == {kv[1] : kv \in results.metadata}
        shown(k) == IF k \in keys THEN <<Line(k, "metadata")>> ELSE <<>>
    IN  <<Line("Account Information:", "")>>
        \o shown("Name") \o shown("Address") \o shown("Account Number")
        \o <<Line("Power Usage Analysis Results:", ""),
             Line("Usage Breakdown:", ""),
             Line("Winter Peak Hours", "winter_peak_usage"),
             Line("Winter Off-Peak Hours", "winter_off_peak_usage"),
             Line("Summer Usage", "summer_usage"),
             Line("Total Usage", "total_usage"),
             Line("Cost Analysis:", ""),
             Line("Time-of-Use Rate Breakdown:", ""),
             Line("Winter Peak Hours", "winter_peak_cost"),
             Line("Winter Off-Peak Hours", "winter_off_peak_cost"),
             Line("Summer Usage", "summer_cost"),
             Line("Total Time-of-Use Cost", "total_time_of_use_cost"),
             Line("Fixed Rate Cost", "total_fixed_rate_cost"),
             IF results.savings > 0
             THEN Line("Time-of-Use billing would save you", "savings")
             ELSE Line("Fixed rate billing would save you", "savings")>>

\* ------------------------------------------------------------ inputs
Units == {Cell(Wh), Cell(kWh), Cell(GJ)}
Usages == {0, 1, 4}

\* (DATE, START TIME) of a row: winter peak, winter off-peak, summer, and an
\* empty DATE cell
Stamps ==
    { <<Cell(<<11, 15>>), Cell(<<8, 0>>)>>,
      <<Cell(<<11, 15>>), Cell(<<14, 0>>)>>,
      <<Cell(<<6, 1>>), Cell(<<12, 0>>)>>,
      <<NaN, Cell(<<8, 0>>)>> }

Rows == {Row(st[1], st[2], u, un) : st \in Stamps, u \in Usages, un \in Units}

RowSeqs == UNION {[1..n -> Rows] : n \in 0..MaxRows}

File(lines) == [exists |-> TRUE, lines |-> lines]
NoFile == [exists |-> FALSE, lines |-> <<>>]

\* files with a header line and up to MaxRows rows
TableFiles == {File(<<HeaderLine>> \o rows) : rows \in RowSeqs}

\* a missing file, a file without the header line, files with account lines
\* above the header, rows whose DATE or START TIME does not parse, and rows with
\* an empty START TIME or UNITS cell
OtherFiles ==
    { NoFile,
      File(<<HeaderLine,
             Row(Cell(<<6, 1>>), Cell(<<12, 0>>), 4, Cell(Wh)),
             Row(Cell(<<13, 1>>), Cell(<<8, 0>>), 1, Cell(Wh))>>),
      File(<<HeaderLine, Row(Cell(<<2, 30>>), Cell(<<8, 0>>), 1, Cell(kWh))>>),
      File(<<HeaderLine, Row(Cell(<<11, 15>>), Cell(<<24, 0>>), 1, Cell(Wh))>>),
      File(<<>>),
      File(<<MetaLine("Name", "A")>>),
      File(<<MetaLine("Name", "A"), HeaderLine,
             Row(Cell(<<11, 15>>), Cell(<<8, 0>>), 2, Cell(Wh))>>),
      File(<<MetaLine("Name", "A"), MetaLine("Address", "B"), HeaderLine,
             Row(Cell(<<6, 1>>), Cell(<<12, 0>>), 1, Cell(kWh))>>),
      File(<<HeaderLine,
             Row(Cell(<<11, 15>>), Cell(<<8, 0>>), 1, Cell(Wh)),
             Row(Cell(<<11, 15>>), NaN, 1, Cell(Wh))>>),
      File(<<HeaderLine, Row(Cell(<<11, 15>>), Cell(<<8, 0>>), 1, NaN)>>) }

\* ------------------------------------------------------------ the run
None == <<>>

InitRun ==
    /\ pc = "start"
    /\ outcome = None
    /\ stdout = <<>>
    /\ ret = None
    /\ exit_code = None

Init ==
    /\ \/ argv = <<"usage.csv">> /\ file \in TableFiles \cup OtherFiles
       \/ argv = <<>> /\ file = NoFile
    /\ InitRun

\* parser.parse_args(): a missing positional argument ends the process with 2
ParseArgs ==
    /\ pc = "start"
    /\ IF Len(argv) = 1
       THEN pc' = "try" /\ exit_code' = exit_code
       ELSE pc' = "exited" /\ exit_code' = <<2>>
    /\ UNCHANGED <<argv, file, outcome, stdout, ret>>

\* results = analyze_power_usage(args.file_path)
Analyze ==
    /\ pc = "try"
    /\ outcome' = analyze_power_usage(file)
    /\ pc' = IF outcome'.raised THEN "except" ELSE "format"
    /\ UNCHANGED <<argv, file, stdout, ret, exit_code>>

\* format_results(results); return 0
FormatResults ==
    /\ pc = "format"
    /\ stdout' = stdout \o format_results(outcome.results)
    /\ ret' = <<0>>
    /\ pc' = "returned"
    /\ UNCHANGED <<argv, file, outcome, exit_code>>

\* except Exception as e: print(...); return 1
ExceptHandler ==
    /\ pc = "except"
    /\ stdout' = Append(stdout, Line("Error processing file: ", outcome.exc))
    /\ ret' = <<1>>
    /\ pc' = "returned"
    /\ UNCHANGED <<argv, file, outcome, exit_code>>

\* if __name__ == "__main__": main()  -- the value of main() is dropped and the
\* interpreter ends with status 0
ModuleExit ==
    /\ pc = "returned"
    /\ exit_code' = <<0>>
    /\ pc' = "exited"
    /\ UNCHANGED <<argv, file, outcome, stdout, ret>>

Next == ParseArgs \/ Analyze \/ FormatResults \/ ExceptHandler \/ ModuleExit

Spec == Init /\ [][Next]_vars

\* ------------------------------------------------------------ one-row runs
\* every month, hour and minute of the clock, and the first value past each end
ClassifyMonths == 0..13
ClassifyDays == {1, 31}
ClassifyHours == 0..24
ClassifyMinutes == 0..60

ClassifyFiles ==
    {File(<<HeaderLine, Row(Cell(<<m, d>>), Cell(<<h, mi>>), 1, Cell(Wh))>>) :
        m \in ClassifyMonths, d \in ClassifyDays,
        h \in ClassifyHours, mi \in ClassifyMinutes}

InitClassify ==
    /\ \/ argv = <<"usage.csv">> /\ file \in ClassifyFiles
       \/ argv = <<>> /\ file = NoFile
    /\ InitRun

SpecClassify == InitClassify /\ [][Next]_vars

\* ------------------------------------------------------------ properties
\* analyze_power_usage has been called and has returned or raised
Called == pc \in {"format", "except"} \/ ret # None
Returned == Called /\ ~outcome.raised
HasHeader == file.exists /\ find_header_row(file.lines) # -1
\* the rows of the table (no rows when there is no table)
TableRows ==
    IF HasHeader THEN read_csv(file.lines, find_header_row(file.lines)) ELSE <<>>
RawTotal == SumOver([i \in 1..Len(TableRows) |-> TableRows[i].USAGE], 1..Len(TableRows))

\* month and hour columns of row i, as analyze_power_usage derives them
RowMonth(i) == dt_month(to_datetime(concat(TableRows[i].DATE, TableRows[i].START_TIME)))
RowHour(i) == dt_hour(to_datetime(concat(TableRows[i].DATE, TableRows[i].START_TIME)))
\* how many of the three filters select row i
Claimants(i) ==
    (IF in_winter_peak(RowMonth(i), RowHour(i)) THEN 1 ELSE 0)
    + (IF in_winter_off_peak(RowMonth(i), RowHour(i)) THEN 1 ELSE 0)
    + (IF in_summer_all(RowMonth(i), RowHour(i)) THEN 1 ELSE 0)

\* C1: whenever analyze_power_usage returns a result, every row of the table is
\* selected by exactly one of the three filters and the three bucket sums add up
\* to the total: nothing is counted twice, nothing is in the total but in no
\* bucket.
C1_PartitionComplete ==
    Returned =>
        /\ \A i \in 1..Len(TableRows) : Claimants(i) = 1
        /\ outcome.results.winter_peak_usage
             + outcome.results.winter_off_peak_usage
             + outcome.results.summer_usage = outcome.results.total_usage

\* the single row of a one-row table, when its cells hold a time of the clock
OneRow == TableRows[1]
OneRowOnClock ==
    /\ HasHeader
    /\ Len(TableRows) = 1
    /\ ~isna(OneRow.DATE)
    /\ ~isna(OneRow.START_TIME)
    /\ OneRow.DATE.v[1] \in 1..12
    /\ OneRow.DATE.v[2] = 1
    /\ OneRow.START_TIME.v[1] \in 0..23
    /\ OneRow.START_TIME.v[2] \in 0..59
    /\ ~isna(OneRow.UNITS)
    /\ OneRow.UNITS.v = Wh

\* C2: for every month 1..12, hour 0..23 and minute 0..59, a row's usage is
\* summed into winter-peak when the month is one of 11, 12, 1, 2, 3 and the hour
\* one of 7, 8, 9, 10, 17, 18, 19, 20, into winter-off-peak when the month is
\* one of those and the hour is not, and into summer when the month is 4..10;
\* the minute plays no part.
C2_BucketByMonthAndHour ==
    (Called /\ OneRowOnClock) =>
        LET m == OneRow.DATE.v[1]
            h == OneRow.START_TIME.v[1]
            u == OneRow.USAGE
            winter == m \in {11, 12, 1, 2, 3}
            peak == h \in {7, 8, 9, 10, 17, 18, 19, 20}
        IN  /\ ~outcome.raised
            /\ outcome.results.winter_peak_usage = (IF winter /\ peak THEN u ELSE 0)
            /\ outcome.results.winter_off_peak_usage = (IF winter /\ ~peak THEN u ELSE 0)
            /\ outcome.results.summer_usage = (IF m \in 4..10 THEN u ELSE 0)

\* a March reading at 10:59 has been analysed and counted as winter peak
C2_Witness ==
    /\ Called
    /\ OneRowOnClock
    /\ OneRow.DATE.v[1] = 3
    /\ OneRow.START_TIME.v = <<10, 59>>
    /\ ~outcome.raised
    /\ outcome.results.winter_peak_usage = 1

\* the sums of USAGE over the rows each filter selects
RawSum(S) == SumOver([i \in 1..Len(TableRows) |-> TableRows[i].USAGE], S)
RawWinterPeak ==
    RawSum({i \in 1..Len(TableRows) : in_winter_peak(RowMonth(i), RowHour(i))})
RawWinterOffPeak ==
    RawSum({i \in 1..Len(TableRows) : in_winter_off_peak(RowMonth(i), RowHour(i))})
RawSummer ==
    RawSum({i \in 1..Len(TableRows) : in_summer_all(RowMonth(i), RowHour(i))})
\* a raw sum as the kWh figure it should become under the first row's unit
ExpectedKwh(x) ==
    IF TableRows[1].UNITS.v = Wh THEN x ELSE x * 1000

\* C3: the bucket sums and the total are divided by 1000 when the first row's
\* UNITS is "Wh", and are reported unscaled when it is any other value, "kWh"
\* in particular.
C3_UnitNormalization ==
    Returned =>
        /\ outcome.results.winter_peak_usage = ExpectedKwh(RawWinterPeak)
        /\ outcome.results.winter_off_peak_usage = ExpectedKwh(RawWinterOffPeak)
        /\ outcome.results.summer_usage = ExpectedKwh(RawSummer)
        /\ outcome.results.total_usage = ExpectedKwh(RawTotal)

\* the file with every USAGE multiplied by 1000 and every UNITS set to "Wh"
InWattHours(f) ==
    [f EXCEPT !.lines =
        [i \in 1..Len(f.lines) |->
            IF f.lines[i].kind = "row"
            THEN [f.lines[i] EXCEPT !.USAGE = @ * 1000, !.UNITS = Cell(Wh)]
            ELSE f.lines[i]]]
AllKwh ==
    /\ Len(TableRows) > 0
    /\ \A i \in 1..Len(TableRows) :
          (~isna(TableRows[i].UNITS)) /\ TableRows[i].UNITS.v = kWh
CostFigures(r) ==
    <<r.winter_peak_cost, r.winter_off_peak_cost, r.summer_cost,
      r.total_time_of_use_cost, r.total_fixed_rate_cost, r.savings>>

\* C4: a table declared in "kWh" and the same table with every USAGE times 1000
\* declared in "Wh" give the same bucket costs, time-of-use cost, fixed-rate cost
\* and savings.
C4_SameCostsInEitherUnit ==
    (Returned /\ AllKwh) =>
        LET other == analyze_power_usage(InWattHours(file))
        IN  /\ ~other.raised
            /\ CostFigures(other.results) = CostFigures(outcome.results)

\* C5: in every result savings is the fixed-rate cost minus the time-of-use cost,
\* the fixed-rate cost is the total kWh times 0.17703, the time-of-use cost is
\* winter-peak kWh times 0.34634 plus winter-off-peak kWh times 0.17703 plus
\* summer kWh times 0.12198; so savings is positive exactly when time-of-use is
\* strictly cheaper and negative exactly when it is strictly dearer.
C5_Savings ==
    Returned =>
        LET r == outcome.results
        IN  /\ r.savings = r.total_fixed_rate_cost - r.total_time_of_use_cost
            /\ r.total_fixed_rate_cost = r.total_usage * 17703
            /\ r.total_time_of_use_cost =
                  r.winter_peak_usage * 34634
                  + r.winter_off_peak_usage * 17703
                  + r.summer_usage * 12198
            /\ (r.savings > 0) <=> (r.total_time_of_use_cost < r.total_fixed_rate_cost)
            /\ (r.savings < 0) <=> (r.total_time_of_use_cost > r.total_fixed_rate_cost)

\* a result in which time-of-use billing is the cheaper one has been reported
C5_Witness ==
    /\ pc = "returned"
    /\ ~outcome.raised
    /\ outcome.results.savings > 0
    /\ outcome.results.total_time_of_use_cost < outcome.results.total_fixed_rate_cost
    /\ stdout[Len(stdout)].text = "Time-of-Use billing would save you"

\* C6: when the total usage of the table is zero (no rows, or every USAGE 0) the
\* analysis ends in an error; it never returns a result with a NaN or infinite
\* percentage.
C6_ZeroTotalIsAnError ==
    Called =>
        /\ (HasHeader /\ RawTotal = 0) => outcome.raised
        /\ (~outcome.raised) =>
              /\ outcome.results.winter_peak_percentage.kind = "finite"
              /\ outcome.results.winter_off_peak_percentage.kind = "finite"
              /\ outcome.results.summer_percentage.kind = "finite"

\* C7: the process ends with exit code 0 when analysis and reporting succeeded
\* and with exit code 1 when an error occurred during processing.
C7_ExitCode ==
    (pc = "exited" /\ Called) =>
        exit_code = (IF outcome.raised THEN <<1>> ELSE <<0>>)

\* the row's DATE and START TIME cells give a timestamp
HasTimestamp(row) ==
    /\ ~isna(row.DATE)
    /\ ~isna(row.START_TIME)
    /\ matches_format(concat(row.DATE, row.START_TIME).v)

\* C8: if the header row is missing, or the DATE / START TIME of any one row
\* cannot be turned into a timestamp, analyze_power_usage returns no result,
\* format_results is not run and the only output of main is the one line
\* "Error processing file: <message>".
C8_AbortOnBadInput ==
    (/\ Called
     /\ file.exists
     /\ \/ ~HasHeader
        \/ \E i \in 1..Len(TableRows) : ~HasTimestamp(TableRows[i])) =>
        /\ outcome.raised
        /\ pc # "format"
        /\ pc \in {"returned", "exited"} =>
              stdout = <<Line("Error processing file: ", outcome.exc)>>

\* the files that differ from f at most in the UNITS of the second and later rows
UnitsValues == Units \cup {NaN}
LaterUnitsVariants(f) ==
    LET hr == find_header_row(f.lines)
        later == (hr + 3)..Len(f.lines)
    IN  {[f EXCEPT !.lines =
            [i \in 1..Len(f.lines) |->
                IF i \in later THEN [f.lines[i] EXCEPT !.UNITS = un[i]]
                ELSE f.lines[i]]] : un \in [later -> UnitsValues]}
SameOutcome(a, b) ==
    /\ a.raised = b.raised
    /\ IF a.raised THEN a.type = b.type /\ a.exc = b.exc
       ELSE a.results = b.results

\* C9: the conversion factor is decided by the first row's UNITS alone: two
\* tables that agree on every timestamp and USAGE and on the first row's UNITS
\* get the same outcome, whatever the UNITS of the later rows.
C9_FirstUnitsDecides ==
    (pc \in {"format", "except"} /\ HasHeader) =>
        \A g \in LaterUnitsVariants(file) :
            SameOutcome(analyze_power_usage(g), outcome)

\* a result has been returned for a table whose first row is in "Wh" and whose
\* second row declares a unit without "Wh" in it
C9_Witness ==
    /\ Returned
    /\ Len(TableRows) >= 2
    /\ TableRows[1].UNITS.v = Wh
    /\ ~isna(TableRows[2].UNITS)
    /\ TableRows[2].UNITS.v = GJ
    /\ TableRows[2].USAGE > 0
    /\ outcome.results.total_usage > 0

\* C10: savings does not depend on winter-off-peak usage; with the rates as
\* integers (x 100000) savings = 5505 * summer kWh - 16931 * winter-peak kWh,
\* and time-of-use is cheaper exactly when 5505 * summer kWh exceeds
\* 16931 * winter-peak kWh.
C10_SavingsIgnoreOffPeak ==
    Returned =>
        LET r == outcome.results
        IN  /\ r.savings = 5505 * r.summer_usage - 16931 * r.winter_peak_usage
            /\ (r.total_time_of_use_cost < r.total_fixed_rate_cost)
                  <=> (5505 * r.summer_usage > 16931 * r.winter_peak_usage)

====
